---- MODULE Spec2Model ----
(***************************************************************************)
(* CDC ingestion pipeline: src/src/subscriber.js (module load, the event   *)
(* store, startSubscriber and its callbacks) and src/src/eventHandler.js   *)
(* (handle: normalisation and the optional webhook forward).               *)
(*                                                                         *)
(* Node runs every callback to completion on one thread, so each callback  *)
(* (a promise continuation, a timer, a transport callback) is one action.  *)
(* The transport (jsforce / Faye) and the webhook sink (axios) are the     *)
(* environment: their outcomes are nondeterministic.                       *)
(***************************************************************************)
EXTENDS Integers, Sequences, FiniteSets

VARIABLES
    sfUsername,     \* SF_USERNAME, subscriber.js:7 ("" stands for unset; SF_ is reserved)
    sfPassword,     \* SF_PASSWORD, subscriber.js:8
    REPLAY_ID,      \* subscriber.js:12  module-level const
    WEBHOOK_URL,    \* eventHandler.js:5 module-level const, "" when unset
    proc,           \* "loading" | "running" | "exited"
    eventStore,     \* subscriber.js:21  newest first
    started,        \* number of startSubscriber invocations so far
    pending,        \* invocations suspended at `await conn.login`
    clients,        \* the fayeClients created so far, in creation order
    timers,         \* pending setTimeout callbacks, in firing order
    deliveries,     \* the axios.post promises issued so far
    clock,          \* the local clock read by `new Date()`
    reader,         \* what an importer of the module took from module.exports
    \* ---- observation only (read by no action, but to bound the behaviour) ----
    runsBy,         \* runsBy[r]: the signal whose timer began run r (0: the initial call)
    loginFailed,    \* the runs whose conn.login rejected
    sigLog,         \* one entry per auth-failure signal received
    processed,      \* the values returned by handle, in arrival order
    lastRaw,        \* the raw event of the last callback (<<>> before the first)
    effects,        \* the order of the last callback's effects
    threw           \* number of callbacks that ended in an exception

vars == <<sfUsername, sfPassword, REPLAY_ID, WEBHOOK_URL, proc, eventStore,
          started, pending, clients, timers, deliveries, clock, reader, runsBy,
          loginFailed, sigLog, processed, lastRaw, effects, threw>>

config == <<sfUsername, sfPassword, REPLAY_ID, WEBHOOK_URL>>

(***************************************************************************)
(* Bounds of the model.                                                    *)
(***************************************************************************)
MaxSignals  == 2    \* auth-failure signals received in one behaviour
MaxEvents   == 2    \* events received in one behaviour of Spec and DeliverySpec
MaxSeen     == 1    \* events received in one behaviour of ReconnectSpec, PipelineSpec
MaxResets   == 1    \* auth-failure signals received in one behaviour of PipelineSpec
MaxOverflow == 2    \* events received beyond MAX_EVENTS in StoreSpec
MaxHandled  == 1    \* events received in one behaviour of HandleSpec

(***************************************************************************)
(* Program constants.                                                      *)
(***************************************************************************)
MAX_EVENTS      == 100
RECONNECT_DELAY == 5000

(***************************************************************************)
(* JavaScript values, tagged with their type.                              *)
(***************************************************************************)
Undefined == [t |-> "undefined"]
Null      == [t |-> "null"]
Num(n)    == [t |-> "number", v |-> n]
Str(s)    == [t |-> "string", v |-> s]
Arr(s)    == [t |-> "array",  v |-> s]
Obj(f)    == [t |-> "object", v |-> f]
EmptyObj  == Obj(<<>>)

\* o.k and o?.k: a property that is not there reads as undefined
Get(o, k) == IF o.t = "object" /\ k \in DOMAIN o.v THEN o.v[k] ELSE Undefined

Truthy(x) ==
    CASE x.t = "undefined" -> FALSE
      [] x.t = "null"      -> FALSE
      [] x.t = "number"    -> x.v # 0
      [] x.t = "string"    -> x.v # ""
      [] OTHER             -> TRUE

\* a || b
Or(a, b) == IF Truthy(a) THEN a ELSE b

(***************************************************************************)
(* new Date(ms).toISOString(): the UTC calendar fields of an epoch-millis  *)
(* instant; the string "YYYY-MM-DDTHH:mm:ss.sssZ" is kept as its fields.   *)
(***************************************************************************)
MsPerDay == 24 * 60 * 60 * 1000

CivilFromDays(days) ==
    LET z   == days + 719468
        era == z \div 146097
        doe == z - era * 146097
        yoe == (doe - doe \div 1460 + doe \div 36524 - doe \div 146096) \div 365
        doy == doe - (365 * yoe + yoe \div 4 - yoe \div 100)
        mp  == (5 * doy + 2) \div 153
        d   == doy - (153 * mp + 2) \div 5 + 1
        m   == IF mp < 10 THEN mp + 3 ELSE mp - 9
        y   == yoe + era * 400 + (IF m <= 2 THEN 1 ELSE 0)
    IN  <<y, m, d>>

ToISOString(ms) ==
    LET days == ms \div MsPerDay
        rest == ms % MsPerDay
        ymd  == CivilFromDays(days)
    IN  [t |-> "string",
         v |-> [year |-> ymd[1], month |-> ymd[2], day |-> ymd[3],
                hour   |-> rest \div 3600000,
                minute |-> (rest \div 60000) % 60,
                second |-> (rest \div 1000) % 60,
                milli  |-> rest % 1000]]

(***************************************************************************)
(* eventHandler.js: handle.                                                *)
(***************************************************************************)
HeaderKey == "ChangeEventHeader"

\* const header = rawEvent.payload?.ChangeEventHeader || {}
HeaderOf(rawEvent) == Or(Get(Get(rawEvent, "payload"), HeaderKey), EmptyObj)

\* the loop over Object.entries(rawEvent.payload || {}), as a map key -> value
ChangedValuesKeepAll(rawEvent) ==
    LET payload == Or(Get(rawEvent, "payload"), EmptyObj)
    IN  [key \in DOMAIN payload.v |-> payload.v[key]]

ChangedValues(rawEvent) ==
    LET payload == Or(Get(rawEvent, "payload"), EmptyObj)
    IN  [key \in {k \in DOMAIN payload.v : k # HeaderKey} |-> payload.v[key]]

\* header.commitTimestamp ? new Date(header.commitTimestamp).toISOString() : null
CommitTimestamp(header) ==
    LET ts == Get(header, "commitTimestamp")
    IN  IF Truthy(ts) THEN ToISOString(ts.v) ELSE Null

\* the object literal `normalised`; `now` is the clock read by new Date()
Normalise(rawEvent, now) ==
    LET header == HeaderOf(rawEvent)
    IN  [replayId        |-> Get(Get(rawEvent, "event"), "replayId"),
         receivedAt      |-> now,
         entityName      |-> Get(header, "entityName"),
         changeType      |-> Get(header, "changeType"),
         recordIds       |-> Or(Get(header, "recordIds"), Arr(<<>>)),
         changedFields   |-> Or(Get(header, "changedFields"), Arr(<<>>)),
         changedValues   |-> ChangedValues(rawEvent),
         commitTimestamp |-> CommitTimestamp(header),
         commitUser      |-> Get(header, "commitUser"),
         transactionKey  |-> Get(header, "transactionKey"),
         changeOrigin    |-> Get(header, "changeOrigin")]

\* handle without the optional chaining: rawEvent.payload.ChangeEventHeader and
\* rawEvent.event.replayId throw a TypeError where the block is missing
HandleThrowsWithoutChaining(rawEvent) ==
    \/ Get(rawEvent, "payload").t # "object"
    \/ Get(rawEvent, "event").t # "object"

\* handle throws a TypeError where it calls .join on a value that is no array,
\* and a RangeError where the commit time is no valid date
HandleThrows(rawEvent) ==
    LET header == HeaderOf(rawEvent)
        ts     == Get(header, "commitTimestamp")
    IN  \/ Or(Get(header, "recordIds"), Arr(<<>>)).t # "array"
        \/ Or(Get(header, "changedFields"), Arr(<<>>)).t # "array"
        \/ (Truthy(ts) /\ ts.t # "number")

\* if (WEBHOOK_URL) axios.post(WEBHOOK_URL, normalised): the promises issued
ForwardAlways(url, normalised, posts) ==
    Append(posts, [url |-> url, body |-> normalised, status |-> "pending"])

Forward(url, normalised, posts) ==
    IF url # ""
    THEN Append(posts, [url |-> url, body |-> normalised, status |-> "pending"])
    ELSE posts

(***************************************************************************)
(* subscriber.js: the event store.                                         *)
(***************************************************************************)
Unshift(store, event) == <<event>> \o store
Pop(store)            == SubSeq(store, 1, Len(store) - 1)

StoreEventNoEviction(store, event) == Unshift(store, event)

StoreEventAtBack(store, event) ==
    LET s == Append(store, event)
    IN  IF Len(s) > MAX_EVENTS THEN Pop(s) ELSE s

StoreEvent(store, event) ==
    LET s == Unshift(store, event)
    IN  IF Len(s) > MAX_EVENTS THEN Pop(s) ELSE s

(***************************************************************************)
(* The raw events the transport delivers.  Replay ids grow with each event *)
(* and lie beyond every configured starting cursor.                        *)
(***************************************************************************)
StartCursors == {-1, 40}

NextReplayId == 41 + Len(processed)

FullHeader ==
    [entityName      |-> Str("Contact"),
     changeType      |-> Str("UPDATE"),
     recordIds       |-> Arr(<<"003x">>),
     changedFields   |-> Arr(<<"Phone">>),
     changeOrigin    |-> Str("com/salesforce/api/soap"),
     transactionKey  |-> Str("0001-aaaa"),
     commitTimestamp |-> Num(MsPerDay + 3723004),
     commitUser      |-> Str("005x")]

ExtraValues == [Phone |-> Str("+1-555-0100"), Title |-> Str("Manager")]

\* the end-to-end example of the documentation, with replay id n
SampleEvent(n) ==
    Obj([payload |-> Obj([ChangeEventHeader |-> Obj(FullHeader),
                          Phone |-> ExtraValues.Phone]),
         event   |-> Obj([replayId |-> Num(n)])])

\* an event without a header
BareEvent(n) ==
    Obj([payload |-> Obj([Title |-> ExtraValues.Title]),
         event   |-> Obj([replayId |-> Num(n)])])

RawEvents(n) == {SampleEvent(n), BareEvent(n)}

\* every shape of raw event: each optional part present or missing
OptionalHeaderKeys == {"recordIds", "changedFields", "commitTimestamp"}
TimestampChoices   == {Null, Num(0), FullHeader.commitTimestamp}

HeaderChoices ==
    {Obj([k \in (DOMAIN FullHeader \ OptionalHeaderKeys) \cup T |->
            IF k = "commitTimestamp" THEN ts ELSE FullHeader[k]]) :
        T \in SUBSET OptionalHeaderKeys, ts \in TimestampChoices}
    \cup {EmptyObj}

PayloadChoices ==
    {Obj([k \in E |-> ExtraValues[k]]) : E \in SUBSET DOMAIN ExtraValues}
    \cup {Obj([k \in E \cup {HeaderKey} |->
                IF k = HeaderKey THEN h ELSE ExtraValues[k]]) :
            E \in SUBSET DOMAIN ExtraValues, h \in HeaderChoices \cup {Null}}

AllRawEvents(n) ==
    {Obj([payload |-> p, event |-> Obj([replayId |-> Num(n)])]) : p \in PayloadChoices}
    \cup {Obj([payload |-> p]) : p \in PayloadChoices}
    \cup {Obj([event |-> Obj([replayId |-> Num(n)])]), EmptyObj}

(***************************************************************************)
(* The state after the environment is read and before the module's code    *)
(* runs.                                                                   *)
(***************************************************************************)
Init ==
    /\ sfUsername \in {"", "user@example.com"}
    /\ sfPassword \in {"", "secret"}
    /\ REPLAY_ID \in StartCursors
    /\ WEBHOOK_URL \in {"", "https://sink.example/hook"}
    /\ proc = "loading"
    /\ eventStore = <<>>
    /\ started = 0
    /\ pending = {}
    /\ clients = <<>>
    /\ timers = <<>>
    /\ deliveries = <<>>
    /\ clock = 0
    /\ reader = [held |-> FALSE, taken |-> <<>>, at |-> 0]
    /\ runsBy = <<>>
    /\ loginFailed = {}
    /\ sigLog = <<>>
    /\ processed = <<>>
    /\ lastRaw = Undefined
    /\ effects = <<>>
    /\ threw = 0

\* subscriber.js:15-18, then the rest of the module's top level
LoadModule ==
    /\ proc = "loading"
    /\ proc' = IF sfUsername = "" \/ sfPassword = "" THEN "exited" ELSE "running"
    /\ UNCHANGED <<config, reader, eventStore, started, pending, clients, timers,
                   deliveries, clock, runsBy, loginFailed, sigLog, processed,
                   lastRaw, effects, threw>>

\* startSubscriber up to `await conn.login(...)`; `by` is the signal whose
\* timer called it, 0 for the call at process start
StartSubscriber(by) ==
    /\ started' = started + 1
    /\ pending' = pending \cup {started + 1}
    /\ runsBy' = Append(runsBy, by)

\* the call of startSubscriber at process start
Start ==
    /\ proc = "running"
    /\ started = 0
    /\ StartSubscriber(0)
    /\ UNCHANGED <<config, reader, proc, eventStore, clients, timers, deliveries, clock,
                   loginFailed, sigLog, processed, lastRaw, effects, threw>>

\* the fayeClient of subscriber.js:48-57 and its subscribe call of line 61
NewClient(r) ==
    [run |-> r, replay |-> REPLAY_ID, sub |-> "pending", seen |-> Len(processed)]

\* a startSubscriber that empties the store for its new session
LoginOkClearsStore(r) ==
    /\ proc = "running"
    /\ r \in pending
    /\ pending' = pending \ {r}
    /\ clients' = Append(clients, NewClient(r))
    /\ eventStore' = <<>>
    /\ UNCHANGED <<config, reader, proc, started, timers, deliveries, clock,
                   runsBy, loginFailed, sigLog, processed, lastRaw, effects, threw>>

\* conn.login resolves: the rest of startSubscriber runs to its return
LoginOk(r) ==
    /\ proc = "running"
    /\ r \in pending
    /\ pending' = pending \ {r}
    /\ clients' = Append(clients, NewClient(r))
    /\ UNCHANGED <<config, reader, proc, eventStore, started, timers, deliveries, clock,
                   runsBy, loginFailed, sigLog, processed, lastRaw, effects, threw>>

\* a mistaken catch block that logs and falls through
LoginFailFallsThrough(r) ==
    /\ proc = "running"
    /\ r \in pending
    /\ pending' = pending \ {r}
    /\ loginFailed' = loginFailed \cup {r}
    /\ clients' = Append(clients, NewClient(r))
    /\ UNCHANGED <<config, reader, proc, eventStore, started, timers, deliveries, clock,
                   runsBy, sigLog, processed, lastRaw, effects, threw>>

\* conn.login rejects: the catch block, process.exit(1)
LoginFail(r) ==
    /\ proc = "running"
    /\ r \in pending
    /\ pending' = pending \ {r}
    /\ loginFailed' = loginFailed \cup {r}
    /\ proc' = "exited"
    /\ UNCHANGED <<config, reader, eventStore, started, clients, timers, deliveries, clock,
                   runsBy, sigLog, processed, lastRaw, effects, threw>>

\* subscription.then(...)
SubscribeAck(c) ==
    /\ proc = "running"
    /\ c \in DOMAIN clients
    /\ clients[c].sub = "pending"
    /\ clients' = [clients EXCEPT ![c].sub = "active"]
    /\ UNCHANGED <<config, reader, proc, eventStore, started, pending, timers, deliveries,
                   clock, runsBy, loginFailed, sigLog, processed, lastRaw, effects,
                   threw>>

\* a catch callback that schedules a reconnect as the auth-failure handler does
SubscribeRejectReconnects(c) ==
    /\ proc = "running"
    /\ c \in DOMAIN clients
    /\ clients[c].sub = "pending"
    /\ clients' = [clients EXCEPT ![c].sub = "rejected"]
    /\ timers' = Append(timers, [fn |-> "startSubscriber", delay |-> RECONNECT_DELAY,
                                  sig |-> 0])
    /\ UNCHANGED <<config, reader, proc, eventStore, started, pending, deliveries,
                   clock, runsBy, loginFailed, sigLog, processed, lastRaw, effects,
                   threw>>

\* subscription.catch(...)
SubscribeReject(c) ==
    /\ proc = "running"
    /\ c \in DOMAIN clients
    /\ clients[c].sub = "pending"
    /\ clients' = [clients EXCEPT ![c].sub = "rejected"]
    /\ UNCHANGED <<config, reader, proc, eventStore, started, pending, timers, deliveries,
                   clock, runsBy, loginFailed, sigLog, processed, lastRaw, effects,
                   threw>>

\* setTimeout(startSubscriber, 5000)
SetTimeout(queue, sig) ==
    Append(queue, [fn |-> "startSubscriber", delay |-> RECONNECT_DELAY, sig |-> sig])

\* what is noted of a signal: whether client c was subscribed, whether an
\* event had been handled, and how many runs of startSubscriber had begun
SignalEntry(c) ==
    [active |-> clients[c].sub = "active", afterEvent |-> processed # <<>>,
     runs |-> started]

\* a handler that schedules the timer and also restarts at once
AuthFailureRestartsNow(c) ==
    /\ proc = "running"
    /\ c \in DOMAIN clients
    /\ Len(sigLog) < MaxSignals
    /\ timers' = SetTimeout(timers, Len(sigLog) + 1)
    /\ StartSubscriber(Len(sigLog) + 1)
    /\ sigLog' = Append(sigLog, SignalEntry(c))
    /\ UNCHANGED <<config, reader, proc, eventStore, clients, deliveries, clock,
                   loginFailed, processed, lastRaw, effects, threw>>

\* the AuthFailure extension's callback of client c
AuthFailure(c) ==
    /\ proc = "running"
    /\ c \in DOMAIN clients
    /\ Len(sigLog) < MaxSignals
    /\ timers' = SetTimeout(timers, Len(sigLog) + 1)
    /\ sigLog' = Append(sigLog, SignalEntry(c))
    /\ UNCHANGED <<config, reader, proc, eventStore, started, pending, clients, deliveries,
                   clock, runsBy, loginFailed, processed, lastRaw, effects, threw>>

\* the oldest timer fires (all have the same delay): startSubscriber runs again
TimerFire ==
    /\ proc = "running"
    /\ timers # <<>>
    /\ timers' = Tail(timers)
    /\ StartSubscriber(Head(timers).sig)
    /\ UNCHANGED <<config, reader, proc, eventStore, clients, deliveries, clock,
                   loginFailed, sigLog, processed, lastRaw, effects, threw>>

(***************************************************************************)
(* The subscribe callback of subscriber.js:61-64:                          *)
(*     const processed = eventHandler.handle(event); storeEvent(processed) *)
(***************************************************************************)
\* the transport calls the callback of a client whose subscription is active
Receiving(c) ==
    /\ proc = "running"
    /\ c \in DOMAIN clients
    /\ clients[c].sub = "active"

\* the effects of handle, in the order of its statements
HandleEffects(url) ==
    <<"normalise">> \o (IF url # "" THEN <<"deliver">> ELSE <<>>)

\* a callback that takes no event while a delivery is outstanding
OnEventAwaitsDelivery(c, rawEvent) ==
    /\ Receiving(c)
    /\ \A i \in DOMAIN deliveries : deliveries[i].status # "pending"
    /\ ~HandleThrows(rawEvent)
    /\ lastRaw' = rawEvent
    /\ clock' = clock + 1
    /\ deliveries' = Forward(WEBHOOK_URL, Normalise(rawEvent, clock), deliveries)
    /\ eventStore' = StoreEvent(eventStore, Normalise(rawEvent, clock))
    /\ processed' = Append(processed, Normalise(rawEvent, clock))
    /\ effects' = HandleEffects(WEBHOOK_URL) \o <<"append">>
    /\ UNCHANGED <<config, reader, proc, started, pending, clients, timers, runsBy,
                   loginFailed, sigLog, threw>>

\* each callback reads the clock once; the clock has advanced by the next one
OnEvent(c, rawEvent) ==
    /\ Receiving(c)
    /\ lastRaw' = rawEvent
    /\ clock' = clock + 1
    /\ IF HandleThrows(rawEvent)
       THEN /\ threw' = threw + 1
            /\ effects' = <<"normalise", "throw">>
            /\ UNCHANGED <<deliveries, eventStore, processed>>
       ELSE /\ deliveries' = Forward(WEBHOOK_URL, Normalise(rawEvent, clock), deliveries)
            /\ eventStore' = StoreEvent(eventStore, Normalise(rawEvent, clock))
            /\ processed' = Append(processed, Normalise(rawEvent, clock))
            /\ effects' = HandleEffects(WEBHOOK_URL) \o <<"append">>
            /\ UNCHANGED threw
    /\ UNCHANGED <<config, reader, proc, started, pending, clients, timers, runsBy,
                   loginFailed, sigLog>>

\* axios.post resolves: the .then callback logs
DeliveryOk(i) ==
    /\ proc = "running"
    /\ i \in DOMAIN deliveries
    /\ deliveries[i].status = "pending"
    /\ deliveries' = [deliveries EXCEPT ![i].status = "ok"]
    /\ UNCHANGED <<config, reader, proc, eventStore, started, pending, clients, timers,
                   clock, runsBy, loginFailed, sigLog, processed, lastRaw, effects,
                   threw>>

\* axios.post rejects: the .catch callback logs
DeliveryFail(i) ==
    /\ proc = "running"
    /\ i \in DOMAIN deliveries
    /\ deliveries[i].status = "pending"
    /\ deliveries' = [deliveries EXCEPT ![i].status = "failed"]
    /\ UNCHANGED <<config, reader, proc, eventStore, started, pending, clients, timers,
                   clock, runsBy, loginFailed, sigLog, processed, lastRaw, effects,
                   threw>>

(***************************************************************************)
(* subscriber.js:75: module.exports = { startSubscriber, eventStore }.     *)
(* An importer (the query surface) takes eventStore from the exports; what *)
(* it then holds is the array object the callback mutates in place.        *)
(* `taken` and `at` note the content and the number of events handled at   *)
(* that moment.                                                            *)
(***************************************************************************)
ReaderObtains ==
    /\ proc = "running"
    /\ reader' = [held |-> TRUE, taken |-> eventStore, at |-> Len(processed)]
    /\ UNCHANGED <<config, proc, eventStore, started, pending, clients, timers,
                   deliveries, clock, runsBy, loginFailed, sigLog, processed,
                   lastRaw, effects, threw>>

\* an export of a copy: [...eventStore]
ReaderViewOfCopy == reader.taken

\* what the importer finds when it next iterates what it holds
ReaderView == IF reader.held THEN eventStore ELSE <<>>

(***************************************************************************)
(* Specifications.                                                         *)
(***************************************************************************)
Received == Len(processed) + threw

\* the pipeline: a few events of two shapes, every lifecycle step
EventArrives ==
    /\ Received < MaxEvents
    /\ \E c \in DOMAIN clients : \E rawEvent \in RawEvents(NextReplayId) :
          OnEvent(c, rawEvent)

Next ==
    \/ LoadModule
    \/ Start
    \/ \E r \in pending : LoginOk(r)
    \/ \E r \in pending : LoginFail(r)
    \/ \E c \in DOMAIN clients : SubscribeAck(c)
    \/ \E c \in DOMAIN clients : SubscribeReject(c)
    \/ \E c \in DOMAIN clients : AuthFailure(c)
    \/ TimerFire
    \/ EventArrives
    \/ \E i \in DOMAIN deliveries : DeliveryOk(i)
    \/ \E i \in DOMAIN deliveries : DeliveryFail(i)

Spec == Init /\ [][Next]_vars

\* reconnection: every lifecycle step, with events of one shape in between
EventArrivesBetween ==
    /\ Received < MaxSeen
    /\ \E c \in DOMAIN clients : OnEvent(c, SampleEvent(NextReplayId))

NextReconnect ==
    \/ LoadModule
    \/ Start
    \/ \E r \in pending : LoginOk(r)
    \/ \E r \in pending : LoginFail(r)
    \/ \E c \in DOMAIN clients : SubscribeAck(c)
    \/ \E c \in DOMAIN clients : SubscribeReject(c)
    \/ \E c \in DOMAIN clients : AuthFailure(c)
    \/ TimerFire
    \/ EventArrivesBetween

ReconnectSpec == Init /\ [][NextReconnect]_vars

\* reconnection together with forwarding: every step the program can take
NextPipeline ==
    \/ LoadModule
    \/ Start
    \/ \E r \in pending : LoginOk(r)
    \/ \E r \in pending : LoginFail(r)
    \/ \E c \in DOMAIN clients : SubscribeAck(c)
    \/ \E c \in DOMAIN clients : SubscribeReject(c)
    \/ \E c \in DOMAIN clients : Len(sigLog) < MaxResets /\ AuthFailure(c)
    \/ TimerFire
    \/ EventArrivesBetween
    \/ \E i \in DOMAIN deliveries : DeliveryOk(i)
    \/ \E i \in DOMAIN deliveries : DeliveryFail(i)

PipelineSpec == Init /\ [][NextPipeline]_vars

\* forwarding: one session, its events and the outcomes of their deliveries
NextDelivery ==
    \/ LoadModule
    \/ Start
    \/ \E r \in pending : LoginOk(r)
    \/ \E r \in pending : LoginFail(r)
    \/ \E c \in DOMAIN clients : SubscribeAck(c)
    \/ \E c \in DOMAIN clients : SubscribeReject(c)
    \/ EventArrives
    \/ \E i \in DOMAIN deliveries : DeliveryOk(i)
    \/ \E i \in DOMAIN deliveries : DeliveryFail(i)

DeliverySpec == Init /\ [][NextDelivery]_vars

\* the store: enough events, told apart by replay id, to pass its capacity
EventArrivesInOrder ==
    /\ Received < MAX_EVENTS + MaxOverflow
    /\ \E c \in DOMAIN clients : OnEvent(c, SampleEvent(NextReplayId))

NextStore ==
    \/ LoadModule
    \/ Start
    \/ \E r \in pending : LoginOk(r)
    \/ \E r \in pending : LoginFail(r)
    \/ \E c \in DOMAIN clients : SubscribeAck(c)
    \/ \E c \in DOMAIN clients : SubscribeReject(c)
    \/ EventArrivesInOrder

StoreSpec == Init /\ [][NextStore]_vars

\* the store and an importer of it
NextReader ==
    \/ LoadModule
    \/ Start
    \/ \E r \in pending : LoginOk(r)
    \/ \E r \in pending : LoginFail(r)
    \/ \E c \in DOMAIN clients : SubscribeAck(c)
    \/ \E c \in DOMAIN clients : SubscribeReject(c)
    \/ EventArrivesInOrder
    \/ ReaderObtains

ReaderSpec == Init /\ [][NextReader]_vars

\* handle: events of every shape
EventArrivesAnyShape ==
    /\ Received < MaxHandled
    /\ \E c \in DOMAIN clients : \E rawEvent \in AllRawEvents(NextReplayId) :
          OnEvent(c, rawEvent)

NextHandle ==
    \/ LoadModule
    \/ Start
    \/ \E r \in pending : LoginOk(r)
    \/ \E r \in pending : LoginFail(r)
    \/ \E c \in DOMAIN clients : SubscribeAck(c)
    \/ \E c \in DOMAIN clients : SubscribeReject(c)
    \/ EventArrivesAnyShape

HandleSpec == Init /\ [][NextHandle]_vars

(***************************************************************************)
(* Claims.                                                                 *)
(***************************************************************************)
Min(a, b) == IF a < b THEN a ELSE b

\* C1: after n calls of storeEvent on the empty store, the store holds exactly
\* min(n, MAX_EVENTS) entries; its length never exceeds MAX_EVENTS.
C1_StoreLength ==
    Len(eventStore) = Min(Len(processed), MAX_EVENTS)

C1_Witness ==
    /\ Len(processed) = MAX_EVENTS + 2
    /\ Len(eventStore) = MAX_EVENTS

\* C2: the store is the last min(n, MAX_EVENTS) events handled, newest first:
\* entry i is the i-th most recent one, so those evicted are the oldest.
C2_NewestFirst ==
    /\ Len(eventStore) >= Min(Len(processed), MAX_EVENTS)
    /\ \A i \in DOMAIN eventStore :
          /\ i <= Len(processed)
          /\ eventStore[i] = processed[Len(processed) + 1 - i]

C2_Witness ==
    /\ Len(processed) = MAX_EVENTS + 1
    /\ eventStore[1] = processed[MAX_EVENTS + 1]
    /\ eventStore[MAX_EVENTS] = processed[2]
    /\ eventStore[1] # eventStore[2]

\* C3: a client created by the reconnect that follows an auth-failure signal,
\* received while the subscription was active and after at least one event was
\* handled, replays from the cursor of the last event handled.
C3_ReconnectUsesLastCursor ==
    \A c \in DOMAIN clients :
        LET by == runsBy[clients[c].run]
        IN  (by > 0 /\ sigLog[by].active /\ sigLog[by].afterEvent)
                => Num(clients[c].replay) = processed[clients[c].seen].replayId

\* C4: each auth-failure signal accounts for exactly one reconnect attempt,
\* which is either still waiting on its 5000 ms timer or was begun by that
\* timer's firing; no run of startSubscriber but the first has another origin.
C4_OneDelayedReconnectPerSignal ==
    /\ \A s \in DOMAIN sigLog :
          Cardinality({r \in DOMAIN runsBy : runsBy[r] = s})
            + Cardinality({i \in DOMAIN timers : timers[i].sig = s}) = 1
    /\ \A r \in DOMAIN runsBy :
          IF r = 1 THEN runsBy[r] = 0
          ELSE runsBy[r] \in DOMAIN sigLog /\ sigLog[runsBy[r]].runs < r
    /\ \A i \in DOMAIN timers :
          timers[i].fn = "startSubscriber" /\ timers[i].delay = RECONNECT_DELAY
    /\ Len(runsBy) = started

C4_Witness ==
    /\ Len(sigLog) = 2
    /\ sigLog[1].active
    /\ \E r \in DOMAIN runsBy : runsBy[r] = 1
    /\ \E i \in DOMAIN timers : timers[i].sig = 2

\* C5: each callback normalises, then sets the resume cursor to the event's
\* replay id, then appends to the store, then issues the delivery.
C5_CallbackOrder ==
    processed # <<>> =>
        /\ effects = <<"normalise", "cursor", "append">>
                        \o (IF WEBHOOK_URL # "" THEN <<"deliver">> ELSE <<>>)
        /\ Num(REPLAY_ID) = processed[Len(processed)].replayId

\* C6: whatever becomes of the deliveries, no callback throws, the event of
\* the last callback heads the store, the body of every delivery is in the
\* store, and the callback takes the next event while deliveries are pending.
C6_DeliveryNeverBlocks ==
    /\ threw = 0
    /\ processed # <<>> => eventStore[1] = processed[Len(processed)]
    /\ \A i \in DOMAIN deliveries :
          \E j \in DOMAIN eventStore : eventStore[j] = deliveries[i].body
    /\ ((\E c \in DOMAIN clients : Receiving(c)) /\ Received < MaxEvents)
          => ENABLED EventArrives

C6_Witness ==
    /\ Len(deliveries) = 2
    /\ deliveries[1].status = "pending"
    /\ deliveries[2].status = "failed"
    /\ Len(eventStore) = 2
    /\ eventStore[1] = deliveries[2].body

\* C7: the process ends only when credentials are missing or the first
\* authentication fails.
C7_ExitOnlyAtStartup ==
    proc = "exited" =>
        \/ sfUsername = ""
        \/ sfPassword = ""
        \/ \E r \in loginFailed : runsBy[r] = 0

\* C8: every auth-failure signal received while active is followed by a new
\* authentication attempt, however many reconnects came before; so once the
\* process has ended, no such signal is left without a later attempt.
C8_EverySignalRetried ==
    proc = "exited" =>
        \A s \in DOMAIN sigLog :
            sigLog[s].active => started > sigLog[s].runs

\* C9: when the first authentication fails the process ends with no client,
\* no subscription, no timer, no further attempt and an empty store.
C9_InitialAuthFailureIsFatal ==
    \A r \in loginFailed :
        runsBy[r] = 0 =>
            /\ proc = "exited"
            /\ clients = <<>>
            /\ timers = <<>>
            /\ sigLog = <<>>
            /\ pending = {}
            /\ started = 1
            /\ eventStore = <<>>

C9_Witness ==
    /\ 1 \in loginFailed
    /\ proc = "exited"

\* C10: for a raw event whose payload has the header key, changedValues has
\* every other key of the payload with its value, and not the header key.
C10_ChangedValues ==
    LET payload == Get(lastRaw, "payload")
    IN  (/\ effects # <<>>
         /\ effects[Len(effects)] = "append"
         /\ payload.t = "object"
         /\ HeaderKey \in DOMAIN payload.v)
        => LET values == eventStore[1].changedValues
           IN  /\ HeaderKey \notin DOMAIN values
               /\ \A k \in DOMAIN payload.v \ {HeaderKey} :
                     k \in DOMAIN values /\ values[k] = payload.v[k]
               /\ DOMAIN values \subseteq DOMAIN payload.v

C10_Witness ==
    /\ effects # <<>>
    /\ effects[Len(effects)] = "append"
    /\ Get(lastRaw, "payload").t = "object"
    /\ HeaderKey \in DOMAIN Get(lastRaw, "payload").v
    /\ DOMAIN eventStore[1].changedValues = {"Phone", "Title"}

\* the header block of the raw event as received (undefined when missing)
RawHeader == Get(Get(lastRaw, "payload"), HeaderKey)

\* the last callback returned from handle and stored its result
Stored == effects # <<>> /\ effects[Len(effects)] = "append"

\* C11: with any of the payload, the header, the event block, recordIds,
\* changedFields and commitTimestamp missing, handle does not throw, fills in
\* [], [] and null for what is missing, and the event is appended.
C11_DefaultsNotErrors ==
    /\ threw = 0
    /\ Len(eventStore) = Received
    /\ lastRaw # Undefined =>
          /\ Stored
          /\ eventStore[1] = processed[Len(processed)]
          /\ Get(RawHeader, "recordIds") = Undefined
                => eventStore[1].recordIds = Arr(<<>>)
          /\ Get(RawHeader, "changedFields") = Undefined
                => eventStore[1].changedFields = Arr(<<>>)
          /\ Get(RawHeader, "commitTimestamp") = Undefined
                => eventStore[1].commitTimestamp = Null
          /\ Get(lastRaw, "event") = Undefined
                => eventStore[1].replayId = Undefined

C11_Witness ==
    /\ lastRaw = EmptyObj
    /\ Len(eventStore) = 1
    /\ eventStore[1].recordIds = Arr(<<>>)
    /\ eventStore[1].changedFields = Arr(<<>>)
    /\ eventStore[1].commitTimestamp = Null

\* C12 as claimed: what a reader took from the store keeps the length and
\* the entries it had when taken, whatever is appended afterwards.
C12_SnapshotUnchanged ==
    reader.held => ReaderView = reader.taken

\* C12 as amended: what a reader took is the live store; it is as taken only
\* until the next append, after which it is the store's new content, with the
\* newest event in front.
C12_ReaderHoldsLiveStore ==
    reader.held =>
        IF Len(processed) = reader.at
        THEN ReaderView = reader.taken
        ELSE /\ ReaderView # reader.taken
             /\ ReaderView[1] = processed[Len(processed)]
             /\ Len(ReaderView) = Min(Len(processed), MAX_EVENTS)

C12_Witness ==
    /\ reader.held
    /\ reader.at = 1
    /\ Len(reader.taken) = 1
    /\ Len(processed) = 3
    /\ Len(ReaderView) = 3

\* C13: in every step, what a reader can see afterwards is the store as it
\* was before the step or that store after one whole append (the new event in
\* front, the oldest dropped at capacity): never MAX_EVENTS + 1 entries.
C13_ReaderSeesWholeAppends ==
    [][reader'.held =>
          /\ Len(ReaderView') <= MAX_EVENTS
          /\ \/ ReaderView' = eventStore
             \/ /\ Len(processed') = Len(processed) + 1
                /\ ReaderView' = <<processed'[Len(processed')]>>
                        \o SubSeq(eventStore, 1, Min(Len(eventStore), MAX_EVENTS - 1))
      ]_vars

C13_Witness ==
    /\ reader.held
    /\ reader.at = MAX_EVENTS
    /\ Len(processed) = MAX_EVENTS + 1
    /\ Len(ReaderView) = MAX_EVENTS
    /\ ReaderView[1] = processed[MAX_EVENTS + 1]

\* C17: the normalised commitTimestamp is null exactly when the header has no
\* commitTimestamp or a null one; every number, 0 included, is converted.
C17_NullOnlyWhenAbsent ==
    (lastRaw # Undefined /\ Stored) =>
        LET ts == Get(RawHeader, "commitTimestamp")
        IN  /\ (eventStore[1].commitTimestamp = Null) <=> (ts \in {Undefined, Null})
            /\ ts.t = "number" => eventStore[1].commitTimestamp = ToISOString(ts.v)

\* C14: a rejected subscribe call changes nothing but that client's state:
\* the process runs on, no timer is set, no run of startSubscriber begins and
\* the client stays rejected; afterwards a timer is set only by an
\* auth-failure signal and a run begins only by such a timer.
C14_RejectionIsNotRetried ==
    [][/\ \A c \in DOMAIN clients :
             /\ clients[c].sub = "rejected" => clients'[c].sub = "rejected"
             /\ (clients[c].sub = "pending" /\ clients'[c].sub = "rejected")
                   => /\ proc' = "running"
                      /\ timers' = timers
                      /\ started' = started
                      /\ pending' = pending
                      /\ Len(clients') = Len(clients)
       /\ Len(timers') > Len(timers) => Len(sigLog') = Len(sigLog) + 1
       /\ (started' # started /\ started > 0)
             => /\ timers # <<>>
                /\ Head(timers).sig \in DOMAIN sigLog
                /\ timers' = Tail(timers)
      ]_vars

C14_Witness ==
    /\ proc = "running"
    /\ Len(clients) = 2
    /\ clients[1].sub = "rejected"
    /\ clients[2].sub = "active"
    /\ runsBy[clients[2].run] = 1
    /\ started = 2

\* C15: a callback issues one delivery when a webhook URL is configured and
\* none when it is not; nothing is issued again after a failure, so the
\* deliveries are those of the events handled, one each, in order.
C15_OneDeliveryPerEvent ==
    /\ Len(deliveries) = (IF WEBHOOK_URL = "" THEN 0 ELSE Len(processed))
    /\ Len(deliveries) <= Received
    /\ \A i \in DOMAIN deliveries :
          deliveries[i].body = processed[i] /\ deliveries[i].url = WEBHOOK_URL

C15_Witness ==
    /\ WEBHOOK_URL # ""
    /\ Len(processed) = 2
    /\ Len(deliveries) = 2
    /\ deliveries[1].status = "failed"
    /\ deliveries[2].status = "ok"

\* C16: at every moment at most one client is subscribed and feeding the
\* store and at most one reconnect timer is pending, also when signals repeat.
C16_OneSessionOneTimer ==
    /\ Cardinality({c \in DOMAIN clients : clients[c].sub = "active"}) <= 1
    /\ Len(timers) <= 1

\* C18: a step changes the store only by one append of the event it handled
\* (in front; the oldest dropped at capacity); a step of the lifecycle (login,
\* subscription, signal, timer, new run, exit) or of a delivery leaves it as
\* it is.
C18_StoreChangedOnlyByAppend ==
    [][/\ eventStore' # eventStore
             => /\ Len(processed') = Len(processed) + 1
                /\ eventStore' = <<processed'[Len(processed')]>>
                        \o SubSeq(eventStore, 1, Min(Len(eventStore), MAX_EVENTS - 1))
       /\ (\/ proc' # proc
           \/ started' # started
           \/ pending' # pending
           \/ clients' # clients
           \/ timers' # timers
           \/ sigLog' # sigLog
           \/ \E i \in DOMAIN deliveries : deliveries'[i] # deliveries[i])
             => eventStore' = eventStore
      ]_vars

C18_Witness ==
    /\ \E c \in DOMAIN clients :
          /\ runsBy[clients[c].run] > 0
          /\ clients[c].seen = 1
          /\ clients[c].sub = "active"
    /\ \E i \in DOMAIN deliveries : deliveries[i].status = "failed"
    /\ eventStore = <<processed[1]>>

====
